---- MODULE Spec2Model ----
(***************************************************************************)
(* TfL bus checker voice skill (src/lambda): the speech formatters of      *)
(* bus_formatter.py, the TfL client of tfl_client.py and the intent        *)
(* handlers of lambda_function.py, as a state machine.                     *)
(*                                                                         *)
(* Strings are TLA+ strings (\o concatenates, ToString renders a number as *)
(* an f-string does).  A dict is a record whose DOMAIN is the set of keys  *)
(* it holds, so a payload record may lack a key.                           *)
(***************************************************************************)
EXTENDS Integers, Sequences, FiniteSets, TLC

VARIABLES
    pc,         \* position of the handler's thread, or of a function call
    args,       \* arguments of the function under call (function specifications)
    ret,        \* what the function under call returned or raised
    intent,     \* intent name of the request being handled
    slot,       \* the request's "count" slot
    remote,     \* [stop -> what the TfL service answers a GET for that stop]
    count,      \* the count the handler passes to get_next_buses
    future,     \* [side -> state of the future submitted to the thread pool]
    outcome,    \* [side -> what get_next_buses returned or raised]
    buses,      \* [side -> the handler's school_buses / station_buses (or buses)]
    finished,   \* the sides whose fetch has completed, in completion order
    gets,       \* [stop -> number of GET requests issued]
    speak       \* speak_output handed to the response builder

vars == <<pc, args, ret, intent, slot, remote, count, future, outcome, buses, finished,
          gets, speak>>

handlerVars == <<intent, slot, remote, count, future, outcome, buses, finished, gets, speak>>

-----------------------------------------------------------------------------
(* Bounds of the model *)

MaxSeconds == 7400

MaxBuses == 3

(* The values the model draws arrival records from *)
LineNames == {"25", "73"}

DestinationNames == {"Oxford Circus", "Victoria"}

Times == {30, 120}

Labels == {"school", "the station"}

MaxPayload == 3

(* Times of the records of a payload *)
PayloadTimes == {30, 120, 300}

MaxFetched == 2

MaxSlotLen == 2

MaxSide == 3

(* The characters the model draws a slot value from *)
SlotChars == {"-", "0", "1", "5", "9", "a"}

SeqsUpTo(S, n) == UNION {[1..k -> S] : k \in 0..n}

-----------------------------------------------------------------------------
(* bus_formatter.py *)

format_time_to_arrival_dueAt60(seconds) ==
    IF seconds <= 60 THEN "due now"
    ELSE LET minutes == seconds \div 60 IN
         IF minutes = 1 THEN "in 1 minute"
         ELSE IF minutes < 60 THEN "in " \o ToString(minutes) \o " minutes"
         ELSE LET hours == minutes \div 60
                  remaining_minutes == minutes % 60
              IN  IF remaining_minutes = 0
                  THEN IF hours = 1 THEN "in 1 hour"
                       ELSE "in " \o ToString(hours) \o " hours"
                  ELSE IF hours = 1
                  THEN IF remaining_minutes = 1 THEN "in 1 hour and 1 minute"
                       ELSE "in 1 hour and " \o ToString(remaining_minutes) \o " minutes"
                  ELSE IF remaining_minutes = 1
                       THEN "in " \o ToString(hours) \o " hours and 1 minute"
                       ELSE "in " \o ToString(hours) \o " hours and "
                                  \o ToString(remaining_minutes) \o " minutes"

format_time_to_arrival(seconds) ==
    IF seconds < 60 THEN "due now"
    ELSE LET minutes == seconds \div 60 IN
         IF minutes = 1 THEN "in 1 minute"
         ELSE IF minutes < 60 THEN "in " \o ToString(minutes) \o " minutes"
         ELSE LET hours == minutes \div 60
                  remaining_minutes == minutes % 60
              IN  IF remaining_minutes = 0
                  THEN IF hours = 1 THEN "in 1 hour"
                       ELSE "in " \o ToString(hours) \o " hours"
                  ELSE IF hours = 1
                  THEN IF remaining_minutes = 1 THEN "in 1 hour and 1 minute"
                       ELSE "in 1 hour and " \o ToString(remaining_minutes) \o " minutes"
                  ELSE IF remaining_minutes = 1
                       THEN "in " \o ToString(hours) \o " hours and 1 minute"
                       ELSE "in " \o ToString(hours) \o " hours and "
                                  \o ToString(remaining_minutes) \o " minutes"

(* sep.join(parts) *)
RECURSIVE Join(_, _)
Join(parts, sep) ==
    IF Len(parts) = 0 THEN ""
    ELSE IF Len(parts) = 1 THEN parts[1]
    ELSE parts[1] \o sep \o Join(Tail(parts), sep)

format_single_bus(arrival) ==
    LET route == arrival.lineName
        destination == arrival.destinationName
        time_str == format_time_to_arrival(arrival.timeToStation)
    IN  "Route " \o route \o " " \o time_str \o " to " \o destination

format_bus_list_noComma(arrivals, destination_name) ==
    IF Len(arrivals) = 0
    THEN "No buses are scheduled to arrive at " \o destination_name \o " in the next hour"
    ELSE LET count_ == Len(arrivals) IN
         IF count_ = 1
         THEN "The next bus to " \o destination_name \o " is "
                  \o format_single_bus(arrivals[1]) \o "."
         ELSE LET bus_descriptions == [i \in 1..count_ |-> format_single_bus(arrivals[i])]
                  buses_str ==
                      IF count_ = 2
                      THEN bus_descriptions[1] \o " and " \o bus_descriptions[2]
                      ELSE LET all_but_last ==
                                   Join(SubSeq(bus_descriptions, 1, count_ - 1), ", ")
                           IN  all_but_last \o ", and " \o bus_descriptions[count_]
              IN  "The next " \o ToString(count_) \o " buses to " \o destination_name
                      \o " are: " \o buses_str \o "."

format_bus_list(arrivals, destination_name) ==
    IF Len(arrivals) = 0
    THEN "No buses are scheduled to arrive at " \o destination_name \o " in the next hour"
    ELSE LET count_ == Len(arrivals) IN
         IF count_ = 1
         THEN "The next bus to " \o destination_name \o " is "
                  \o format_single_bus(arrivals[1]) \o "."
         ELSE LET bus_descriptions == [i \in 1..count_ |-> format_single_bus(arrivals[i])]
                  buses_str ==
                      IF count_ = 2
                      THEN bus_descriptions[1] \o ", and " \o bus_descriptions[2]
                      ELSE LET all_but_last ==
                                   Join(SubSeq(bus_descriptions, 1, count_ - 1), ", ")
                           IN  all_but_last \o ", and " \o bus_descriptions[count_]
              IN  "The next " \o ToString(count_) \o " buses to " \o destination_name
                      \o " are: " \o buses_str \o "."

format_both_directions_stationFirst(school_buses, station_buses) ==
    LET short(bus) == "Route " \o bus.lineName \o " "
                          \o format_time_to_arrival(bus.timeToStation)
        school_parts == [i \in 1..Len(school_buses) |-> short(school_buses[i])]
        station_parts == [i \in 1..Len(station_buses) |-> short(station_buses[i])]
        joined(parts) ==
            IF Len(parts) = 1 THEN parts[1]
            ELSE IF Len(parts) = 2 THEN parts[1] \o " and " \o parts[2]
            ELSE Join(SubSeq(parts, 1, Len(parts) - 1), ", ") \o ", and "
                     \o parts[Len(parts)]
        school_part ==
            IF Len(school_parts) > 0 THEN "To school: " \o joined(school_parts)
            ELSE "To school: no buses scheduled soon"
        station_part ==
            IF Len(station_parts) > 0 THEN "To the station: " \o joined(station_parts)
            ELSE "To the station: no buses scheduled soon"
    IN  Join(<<station_part, school_part>>, ". ") \o "."

format_both_directions_commaAnd(school_buses, station_buses) ==
    LET short(bus) == "Route " \o bus.lineName \o " "
                          \o format_time_to_arrival(bus.timeToStation)
        school_parts == [i \in 1..Len(school_buses) |-> short(school_buses[i])]
        station_parts == [i \in 1..Len(station_buses) |-> short(station_buses[i])]
        joined(parts) ==
            IF Len(parts) = 1 THEN parts[1]
            ELSE IF Len(parts) = 2 THEN parts[1] \o ", and " \o parts[2]
            ELSE Join(SubSeq(parts, 1, Len(parts) - 1), ", ") \o ", and "
                     \o parts[Len(parts)]
        school_part ==
            IF Len(school_parts) > 0 THEN "To school: " \o joined(school_parts)
            ELSE "To school: no buses scheduled soon"
        station_part ==
            IF Len(station_parts) > 0 THEN "To the station: " \o joined(station_parts)
            ELSE "To the station: no buses scheduled soon"
    IN  Join(<<school_part, station_part>>, ". ") \o "."

format_both_directions(school_buses, station_buses) ==
    LET short(bus) == "Route " \o bus.lineName \o " "
                          \o format_time_to_arrival(bus.timeToStation)
        school_parts == [i \in 1..Len(school_buses) |-> short(school_buses[i])]
        station_parts == [i \in 1..Len(station_buses) |-> short(station_buses[i])]
        joined(parts) ==
            IF Len(parts) = 1 THEN parts[1]
            ELSE IF Len(parts) = 2 THEN parts[1] \o " and " \o parts[2]
            ELSE Join(SubSeq(parts, 1, Len(parts) - 1), ", ") \o ", and "
                     \o parts[Len(parts)]
        school_part ==
            IF Len(school_parts) > 0 THEN "To school: " \o joined(school_parts)
            ELSE "To school: no buses scheduled soon"
        station_part ==
            IF Len(station_parts) > 0 THEN "To the station: " \o joined(station_parts)
            ELSE "To the station: no buses scheduled soon"
    IN  Join(<<school_part, station_part>>, ". ") \o "."

-----------------------------------------------------------------------------
(* config.py *)

BUS_STOPS ==
    [school |-> [stopId |-> "490000123ABC", name |-> "School Stop"],
     station |-> [stopId |-> "490000456DEF", name |-> "Station Stop"]]

TFL_API_BASE == "https://api.tfl.gov.uk"

DEFAULT_BUS_COUNT == 3

-----------------------------------------------------------------------------
(* tfl_client.py *)

Min(a, b) == IF a <= b THEN a ELSE b

Max(a, b) == IF a >= b THEN a ELSE b

(* What a call did: returned a value, or raised an exception *)
Return(v) == [raised |-> FALSE, value |-> v]

Raise(e) == [raised |-> TRUE, exc |-> e]

(* An exception object: its class and its .response attribute *)
NoResponse == [present |-> FALSE]

Response(status_code) == [present |-> TRUE, status_code |-> status_code]

Exc(type, response) == [type |-> type, response |-> response]

(* requests.exceptions: the classes each exception class is an instance of *)
Bases(type) ==
    CASE type = "ReadTimeout" -> {"ReadTimeout", "Timeout", "RequestException", "Exception"}
      [] type = "ConnectTimeout" ->
             {"ConnectTimeout", "ConnectionError", "Timeout", "RequestException", "Exception"}
      [] type = "Timeout" -> {"Timeout", "RequestException", "Exception"}
      [] type = "ConnectionError" -> {"ConnectionError", "RequestException", "Exception"}
      [] type = "HTTPError" -> {"HTTPError", "RequestException", "Exception"}
      [] type = "RequestException" -> {"RequestException", "Exception"}
      [] OTHER -> {type, "Exception"}

IsInstance(e, cls) == cls \in Bases(e.type)

(* os.environ.get(name): None when the variable is not set, else its text *)
EnvNone == [is_none |-> TRUE, text |-> ""]

EnvText(text) == [is_none |-> FALSE, text |-> text]

(* Truth value of a str or None *)
Truthy(v) == ~v.is_none /\ v.text # ""

(* A value inside an f-string *)
Str(v) == IF v.is_none THEN "None" ELSE v.text

(* Base URLs that contain "?" (TFL_API_BASE and the stop ids of BUS_STOPS  *)
(* do not)                                                                 *)
QueryBases == {"https://tfl.example/api?mode=bus"}

(* "?" in url, where url is base_url/StopPoint/stop_id/Arrivals *)
HasQuestionMark(base_url) == base_url \in QueryBases

build_url_eitherCredential(base_url, app_id, app_key, stop_id) ==
    LET url == base_url \o "/StopPoint/" \o stop_id \o "/Arrivals" IN
    IF Truthy(app_id) \/ Truthy(app_key)
    THEN LET separator == IF HasQuestionMark(base_url) THEN "&" ELSE "?" IN
         url \o separator \o "app_id=" \o Str(app_id) \o "&app_key=" \o Str(app_key)
    ELSE url

(* TfLClient._build_url, with the fields __init__ set *)
build_url(base_url, app_id, app_key, stop_id) ==
    LET url == base_url \o "/StopPoint/" \o stop_id \o "/Arrivals" IN
    IF Truthy(app_id) /\ Truthy(app_key)
    THEN LET separator == IF HasQuestionMark(base_url) THEN "&" ELSE "?" IN
         url \o separator \o "app_id=" \o Str(app_id) \o "&app_key=" \o Str(app_key)
    ELSE url

(* requests.get(url, timeout=timeout_val) then response.raise_for_status():  *)
(* the transport raises on a timeout or a connection failure, and           *)
(* raise_for_status raises an HTTPError carrying the response on a 4xx or   *)
(* 5xx status.  answer is what the TfL service does with the request.       *)
requests_get(answer) ==
    CASE answer.kind = "error" -> Raise(Exc(answer.type, NoResponse))
      [] answer.kind = "http" ->
             IF 400 <= answer.status_code /\ answer.status_code < 600
             THEN Raise(Exc("HTTPError", Response(answer.status_code)))
             ELSE Return(answer)

(* A payload object whose "timeToStation" is the JSON null carries the key *)
(* timeToStation_null in place of timeToStation: x.get("timeToStation",   *)
(* default) then returns None, which is neither the default nor a number. *)
NullTime(x) == "timeToStation_null" \in DOMAIN x

(* sorted() compares the keys of a list of two or more elements, and None *)
(* compared with a number raises TypeError                                *)
Unorderable(arrivals) ==
    Len(arrivals) >= 2 /\ \E i \in 1..Len(arrivals) : NullTime(arrivals[i])

(* x.get("timeToStation", float("inf")) *)
SortKey(x) ==
    IF "timeToStation" \in DOMAIN x
    THEN [inf |-> FALSE, t |-> x.timeToStation]
    ELSE [inf |-> TRUE, t |-> 0]

KeyLess_reversed(a, b) == ~b.inf /\ (a.inf \/ b.t < a.t)

(* a < b on sort keys *)
KeyLess(a, b) == ~a.inf /\ (b.inf \/ a.t < b.t)

(* sorted() is stable: x goes after every element that is not greater *)
RECURSIVE InsertByKey(_, _)
InsertByKey(sorted, x) ==
    IF Len(sorted) = 0 THEN <<x>>
    ELSE IF KeyLess(SortKey(x), SortKey(sorted[1])) THEN <<x>> \o sorted
    ELSE <<sorted[1]>> \o InsertByKey(Tail(sorted), x)

RECURSIVE SortedByTime(_)
SortedByTime(arrivals) ==
    IF Len(arrivals) = 0 THEN <<>>
    ELSE InsertByKey(SortedByTime(SubSeq(arrivals, 1, Len(arrivals) - 1)),
                     arrivals[Len(arrivals)])

get_arrivals_requestFirst(answer) ==
    LET response == requests_get(answer) IN
    IF response.raised
    THEN IF IsInstance(response.exc, "RequestException")
         THEN Raise(Exc("RequestException", NoResponse))
         ELSE IF IsInstance(response.exc, "Timeout")
         THEN Raise(Exc("Timeout", NoResponse))
         ELSE response
    ELSE IF ~response.value.is_list
    THEN Raise(Exc("AttributeError", NoResponse))
    ELSE IF Unorderable(response.value.json)
    THEN Raise(Exc("TypeError", NoResponse))
    ELSE Return(SortedByTime(response.value.json))

get_arrivals(answer) ==
    LET response == requests_get(answer) IN
    IF response.raised
    THEN IF IsInstance(response.exc, "Timeout")
         THEN Raise(Exc("Timeout", NoResponse))
         ELSE IF IsInstance(response.exc, "RequestException")
         THEN Raise(Exc("RequestException", NoResponse))
         ELSE response
    ELSE IF ~response.value.is_list
    THEN Raise(Exc("AttributeError", NoResponse))
    ELSE IF Unorderable(response.value.json)
    THEN Raise(Exc("TypeError", NoResponse))
    ELSE Return(SortedByTime(response.value.json))

(* arrivals[:count] *)
SliceTo(arrivals, n) ==
    IF n >= 0 THEN SubSeq(arrivals, 1, Min(n, Len(arrivals)))
    ELSE SubSeq(arrivals, 1, Max(0, Len(arrivals) + n))

(* bus.get(key, default) *)
Get(bus, key, default) == IF key \in DOMAIN bus THEN bus[key] ELSE default

Projected_keepAll(bus) ==
    [k \in DOMAIN bus \cup {"lineName", "destinationName", "timeToStation"} |->
        IF k \in DOMAIN bus THEN bus[k]
        ELSE IF k = "timeToStation" THEN 0 ELSE "Unknown"]

Projected(bus) ==
    IF NullTime(bus)
    THEN [lineName |-> Get(bus, "lineName", "Unknown"),
          destinationName |-> Get(bus, "destinationName", "Unknown"),
          timeToStation_null |-> TRUE]
    ELSE [lineName |-> Get(bus, "lineName", "Unknown"),
          destinationName |-> Get(bus, "destinationName", "Unknown"),
          timeToStation |-> Get(bus, "timeToStation", 0)]

get_next_buses_offByOne(answer, count_) ==
    LET arrivals == get_arrivals(answer) IN
    IF arrivals.raised THEN arrivals
    ELSE LET next_buses == SliceTo(arrivals.value, count_ - 1)
         IN  Return([i \in 1..Len(next_buses) |-> Projected(next_buses[i])])

get_next_buses(answer, count_) ==
    LET arrivals == get_arrivals(answer) IN
    IF arrivals.raised THEN arrivals
    ELSE LET next_buses == SliceTo(arrivals.value, count_)
         IN  Return([i \in 1..Len(next_buses) |-> Projected(next_buses[i])])

-----------------------------------------------------------------------------
(* The state of a process that is handling no request: the function        *)
(* specifications below leave the handler's variables at these values.     *)

NoRequest ==
    /\ intent = "none"
    /\ slot = [present |-> FALSE, has_value |-> FALSE, value |-> <<>>]
    /\ remote = <<>>
    /\ count = 0
    /\ future = <<>>
    /\ outcome = <<>>
    /\ buses = <<>>
    /\ finished = <<>>
    /\ gets = <<>>
    /\ speak = ""

-----------------------------------------------------------------------------
(* TimeSpec: format_time_to_arrival applied to every s in 0..MaxSeconds *)

TimeInit ==
    /\ pc = "call"
    /\ args \in [seconds : 0..MaxSeconds]
    /\ ret = [fn |-> "none"]
    /\ NoRequest

CallFormatTime ==
    /\ pc = "call"
    /\ pc' = "returned"
    /\ ret' = [fn |-> "format_time_to_arrival",
               value |-> format_time_to_arrival(args.seconds)]
    /\ UNCHANGED <<args, handlerVars>>

TimeNext == CallFormatTime

TimeSpec == TimeInit /\ [][TimeNext]_vars

-----------------------------------------------------------------------------
(* C1: for every s >= 0, format_time_to_arrival(s) is the phrase of the    *)
(* piecewise policy: s < 60 "due now"; 60 <= s < 120 "in 1 minute";        *)
(* 120 <= s < 3600 "in N minutes", N = s // 60; s >= 3600, with            *)
(* H = (s // 60) // 60 and M = (s // 60) % 60: M = 0 gives "in 1 hour" or  *)
(* "in H hours", otherwise "in H hour(s) and M minute(s)", "hour" singular *)
(* exactly when H = 1 and "minute" singular exactly when M = 1.            *)

C1_Policy(s) ==
    CASE s < 60 -> "due now"
      [] 60 <= s /\ s < 120 -> "in 1 minute"
      [] 120 <= s /\ s < 3600 -> "in " \o ToString(s \div 60) \o " minutes"
      [] s >= 3600 ->
           LET H == (s \div 60) \div 60
               M == (s \div 60) % 60
               hourWord == IF H = 1 THEN " hour" ELSE " hours"
               minuteWord == IF M = 1 THEN " minute" ELSE " minutes"
           IN  IF M = 0 THEN "in " \o ToString(H) \o hourWord
               ELSE "in " \o ToString(H) \o hourWord \o " and "
                          \o ToString(M) \o minuteWord

C1_TimePolicy ==
    (pc = "returned" /\ ret.fn = "format_time_to_arrival")
        => ret.value = C1_Policy(args.seconds)

C1_Witness ==
    /\ pc = "returned"
    /\ ret.fn = "format_time_to_arrival"
    /\ args.seconds = 7320
    /\ ret.value = "in 2 hours and 2 minutes"

-----------------------------------------------------------------------------
(* ListSpec: the composers applied to every list of at most MaxBuses       *)
(* arrival records (records as get_next_buses returns them)                *)

BusRecords ==
    [lineName : LineNames, destinationName : DestinationNames, timeToStation : Times]

ListInit ==
    /\ pc = "call"
    /\ args \in [arrivals : SeqsUpTo(BusRecords, MaxBuses)]
    /\ ret = [fn |-> "none"]
    /\ NoRequest

CallFormatBusList ==
    /\ pc = "call"
    /\ \E destination_name \in Labels :
           ret' = [fn |-> "format_bus_list",
                   destination_name |-> destination_name,
                   value |-> format_bus_list(args.arrivals, destination_name)]
    /\ pc' = "returned"
    /\ UNCHANGED <<args, handlerVars>>

(* format_single_bus applied to a bus of the list *)
CallFormatSingleBus ==
    /\ pc = "call"
    /\ \E i \in 1..Len(args.arrivals) :
           ret' = [fn |-> "format_single_bus",
                   arrival |-> args.arrivals[i],
                   value |-> format_single_bus(args.arrivals[i])]
    /\ pc' = "returned"
    /\ UNCHANGED <<args, handlerVars>>

ListNext == CallFormatBusList \/ CallFormatSingleBus

ListSpec == ListInit /\ [][ListNext]_vars

-----------------------------------------------------------------------------
(* C2: format_bus_list(arrivals, L) is, for n = Len(arrivals):             *)
(* n = 0 "No buses are scheduled to arrive at L in the next hour";         *)
(* n = 1 "The next bus to L is d0."; n = 2 "The next 2 buses to L are:     *)
(* d0, and d1."; n >= 3 "The next n buses to L are: d0, d1, ..., and       *)
(* dn-1.", with di = "Route {lineName} {time-phrase} to {destinationName}" *)
(* of record i, in input order, each with its own destinationName.         *)

C2_Desc(r) ==
    "Route " \o r.lineName \o " " \o C1_Policy(r.timeToStation) \o " to "
             \o r.destinationName

(* d_i, d_i+1, ..., and d_n: every item but the last is followed by ", "   *)
(* and the last is preceded by "and "                                      *)
RECURSIVE C2_Items(_, _)
C2_Items(arrivals, i) ==
    IF i = Len(arrivals) THEN "and " \o C2_Desc(arrivals[i])
    ELSE C2_Desc(arrivals[i]) \o ", " \o C2_Items(arrivals, i + 1)

C2_Sentence(arrivals, L) ==
    LET n == Len(arrivals) IN
    CASE n = 0 -> "No buses are scheduled to arrive at " \o L \o " in the next hour"
      [] n = 1 -> "The next bus to " \o L \o " is " \o C2_Desc(arrivals[1]) \o "."
      [] n >= 2 -> "The next " \o ToString(n) \o " buses to " \o L \o " are: "
                       \o C2_Items(arrivals, 1) \o "."

-----------------------------------------------------------------------------
(* What the TfL service may do with a GET .../StopPoint/{stopId}/Arrivals  *)

(* 200 with a JSON list of arrival objects *)
Arrivals(payload) ==
    [kind |-> "http", status_code |-> 200, is_list |-> TRUE, json |-> payload]

(* 200 with a non-empty JSON object instead of a list: sorted() iterates   *)
(* its keys, which are strings and have no .get (AttributeError)           *)
NotAList == [kind |-> "http", status_code |-> 200, is_list |-> FALSE, json |-> <<>>]

ErrorStatus(status_code) ==
    [kind |-> "http", status_code |-> status_code, is_list |-> FALSE, json |-> <<>>]

TransportError(type) == [kind |-> "error", type |-> type]

StatusCodes == {400, 404, 429, 499, 500, 503, 599}

TransportErrors == {"ConnectTimeout", "ReadTimeout", "ConnectionError"}

Failures ==
    {ErrorStatus(c) : c \in StatusCodes} \cup {TransportError(t) : t \in TransportErrors}
        \cup {NotAList}

-----------------------------------------------------------------------------
(* ClientSpec: get_arrivals and get_next_buses applied to every answer of  *)
(* the service with a payload of at most MaxPayload records.  A payload    *)
(* record may lack any of the three keys and may carry other keys.         *)

RawRecords ==
    [lineName : LineNames, destinationName : {"Victoria"}, timeToStation : PayloadTimes]
        \cup {[lineName |-> "25", timeToStation |-> 120],
              [destinationName |-> "Victoria", timeToStation |-> 30],
              [lineName |-> "73", destinationName |-> "Victoria"],
              [lineName |-> "25", destinationName |-> "Victoria", timeToStation |-> 300,
               towards |-> "Aldgate"]}

ClientInit ==
    /\ pc = "call"
    /\ args \in [answer : {Arrivals(p) : p \in SeqsUpTo(RawRecords, MaxPayload)}
                              \cup Failures]
    /\ ret = [fn |-> "none"]
    /\ NoRequest

CallGetArrivals ==
    /\ pc = "call"
    /\ ret' = [fn |-> "get_arrivals", result |-> get_arrivals(args.answer)]
    /\ pc' = "returned"
    /\ UNCHANGED <<args, handlerVars>>

CallGetNextBuses ==
    /\ pc = "call"
    /\ \E count_ \in 1..10 :
           ret' = [fn |-> "get_next_buses", count |-> count_,
                   result |-> get_next_buses(args.answer, count_)]
    /\ pc' = "returned"
    /\ UNCHANGED <<args, handlerVars>>

ClientNext == CallGetArrivals \/ CallGetNextBuses

ClientSpec == ClientInit /\ [][ClientNext]_vars

IsArrivals(answer) == answer.kind = "http" /\ answer.status_code = 200 /\ answer.is_list

AllTimed(payload) == \A i \in 1..Len(payload) : "timeToStation" \in DOMAIN payload[i]

-----------------------------------------------------------------------------
(* C3: for every list of arrivals the service returns and every count in   *)
(* 1..10, get_next_buses returns, without an error, exactly                *)
(* min(len(list), count) records, and they are the first records, in       *)
(* order, of the list sorted ascending by time-to-arrival (records of      *)
(* equal time in payload order); with fewer records than requested it      *)
(* returns them all.  The order is stated for payloads whose records all   *)
(* carry a time.                                                           *)

(* The position of payload[i] in the payload sorted by time, stably *)
C3_Rank(payload, i) ==
    1 + Cardinality({j \in 1..Len(payload) :
                        \/ payload[j].timeToStation < payload[i].timeToStation
                        \/ /\ payload[j].timeToStation = payload[i].timeToStation
                           /\ j < i})

(* The returned record b is payload record r: it has r's time and every    *)
(* name r carries                                                          *)
C3_IsRecord(b, r) ==
    /\ b.timeToStation = r.timeToStation
    /\ \A k \in {"lineName", "destinationName"} : k \in DOMAIN r => b[k] = r[k]

C3_FirstOfSorted ==
    (pc = "returned" /\ ret.fn = "get_next_buses" /\ IsArrivals(args.answer))
        => LET payload == args.answer.json
               n == IF Len(payload) <= ret.count THEN Len(payload) ELSE ret.count
           IN  /\ ~ret.result.raised
               /\ Len(ret.result.value) = n
               /\ AllTimed(payload) =>
                      \A i \in 1..Len(payload) :
                          C3_Rank(payload, i) <= n =>
                              C3_IsRecord(ret.result.value[C3_Rank(payload, i)], payload[i])

C3_Witness ==
    /\ pc = "returned"
    /\ ret.fn = "get_next_buses"
    /\ ret.count = 2
    /\ args.answer =
           Arrivals(<<[lineName |-> "25", destinationName |-> "Victoria", timeToStation |-> 300],
                      [lineName |-> "73", destinationName |-> "Victoria", timeToStation |-> 30],
                      [lineName |-> "25", destinationName |-> "Victoria", timeToStation |-> 30]>>)
    /\ ~ret.result.raised
    /\ ret.result.value = <<args.answer.json[2], args.answer.json[3]>>

-----------------------------------------------------------------------------
(* C4: for every payload whose records have distinct timeToStation values, *)
(* in any order, get_arrivals returns the same records in non-decreasing   *)
(* order of timeToStation: a permutation of the payload.                   *)

C4_DistinctTimes(payload) ==
    /\ AllTimed(payload)
    /\ \A i, j \in 1..Len(payload) :
           i # j => payload[i].timeToStation # payload[j].timeToStation

C4_SortedPermutation ==
    (/\ pc = "returned"
     /\ ret.fn = "get_arrivals"
     /\ IsArrivals(args.answer)
     /\ C4_DistinctTimes(args.answer.json))
        => LET payload == args.answer.json IN
           /\ ~ret.result.raised
           /\ Len(ret.result.value) = Len(payload)
           /\ \A i, j \in 1..Len(ret.result.value) :
                  i < j => ret.result.value[i].timeToStation
                               <= ret.result.value[j].timeToStation
           /\ {ret.result.value[i] : i \in 1..Len(ret.result.value)}
                  = {payload[i] : i \in 1..Len(payload)}

C4_Witness ==
    /\ pc = "returned"
    /\ ret.fn = "get_arrivals"
    /\ IsArrivals(args.answer)
    /\ Len(args.answer.json) = 3
    /\ C4_DistinctTimes(args.answer.json)
    /\ args.answer.json[1].timeToStation = 300
    /\ args.answer.json[2].timeToStation = 30
    /\ args.answer.json[3].timeToStation = 120
    /\ ~ret.result.raised
    /\ ret.result.value = <<args.answer.json[2], args.answer.json[3], args.answer.json[1]>>

-----------------------------------------------------------------------------
(* lambda_function.py: the count slot *)

Digits == {"0", "1", "2", "3", "4", "5", "6", "7", "8", "9"}

DigitValue(c) ==
    CASE c = "0" -> 0 [] c = "1" -> 1 [] c = "2" -> 2 [] c = "3" -> 3 [] c = "4" -> 4
      [] c = "5" -> 5 [] c = "6" -> 6 [] c = "7" -> 7 [] c = "8" -> 8 [] c = "9" -> 9

RECURSIVE DigitsValue(_)
DigitsValue(digits) ==
    IF Len(digits) = 0 THEN 0
    ELSE 10 * DigitsValue(SubSeq(digits, 1, Len(digits) - 1))
             + DigitValue(digits[Len(digits)])

(* int(value) of a string, given as its characters: an optional sign and   *)
(* one or more decimal digits, anything else is a ValueError               *)
int(value) ==
    LET signed == Len(value) > 0 /\ value[1] \in {"-", "+"}
        digits == IF signed THEN Tail(value) ELSE value
    IN  IF Len(digits) = 0 \/ \E i \in 1..Len(digits) : digits[i] \notin Digits
        THEN Raise(Exc("ValueError", NoResponse))
        ELSE Return(IF signed /\ value[1] = "-" THEN 0 - DigitsValue(digits)
                    ELSE DigitsValue(digits))

(* slots: whether it holds the key 'count', and slots['count'].value: None *)
(* or a string                                                             *)
NoSlot == [present |-> FALSE, has_value |-> FALSE, value |-> <<>>]

NoneSlot == [present |-> TRUE, has_value |-> FALSE, value |-> <<>>]

Slot(value) == [present |-> TRUE, has_value |-> TRUE, value |-> value]

SlotCount_noFloor(slot_) ==
    IF slot_.present /\ slot_.has_value /\ Len(slot_.value) > 0
    THEN LET parsed == int(slot_.value) IN
         IF parsed.raised
         THEN IF IsInstance(parsed.exc, "ValueError") \/ IsInstance(parsed.exc, "TypeError")
              THEN Return(DEFAULT_BUS_COUNT)
              ELSE parsed
         ELSE Return(Min(parsed.value, 10))
    ELSE Return(DEFAULT_BUS_COUNT)

(* Lines 53-61 (and 103-111): the count of the request, or the exception   *)
(* that escapes the block                                                  *)
SlotCount(slot_) ==
    IF slot_.present /\ slot_.has_value /\ Len(slot_.value) > 0
    THEN LET parsed == int(slot_.value) IN
         IF parsed.raised
         THEN IF IsInstance(parsed.exc, "ValueError") \/ IsInstance(parsed.exc, "TypeError")
              THEN Return(DEFAULT_BUS_COUNT)
              ELSE parsed
         ELSE Return(Max(1, Min(parsed.value, 10)))
    ELSE Return(DEFAULT_BUS_COUNT)

-----------------------------------------------------------------------------
(* lambda_function.py: the school and station handlers *)

TimeoutMessage == "Sorry, Transport for London isn't responding. Please try again."

TooFrequentMessage ==
    "I'm checking buses too frequently. Please wait a moment and try again."

ConfigurationMessage ==
    "There's a problem with the bus stop configuration. Please contact support."

IssuesMessage == "Transport for London is experiencing issues. Please try again later."

CantReachMessage == "I can't reach the bus information service right now."

CantConnectMessage == "I can't connect to the bus information service right now."

UnexpectedMessage == "I received unexpected data from Transport for London."

(* format_time_to_arrival(None) raises TypeError at "seconds < 60", so     *)
(* formatting a list raises when a record of it has no numeric time       *)
FormatRaises(arrivals) == \E i \in 1..Len(arrivals) : NullTime(arrivals[i])

(* The try block of the handler: result is what get_next_buses did *)
SingleSpeak(result, destination_name) ==
    IF ~result.raised
    THEN IF FormatRaises(result.value) THEN UnexpectedMessage
         ELSE format_bus_list(result.value, destination_name)
    ELSE IF IsInstance(result.exc, "Timeout") THEN TimeoutMessage
    ELSE IF IsInstance(result.exc, "RequestException")
    THEN IF result.exc.response.present
         THEN LET status_code == result.exc.response.status_code IN
              IF status_code = 429 THEN TooFrequentMessage
              ELSE IF 400 <= status_code /\ status_code < 500 THEN ConfigurationMessage
              ELSE IF 500 <= status_code /\ status_code < 600 THEN IssuesMessage
              ELSE CantReachMessage
         ELSE CantConnectMessage
    ELSE UnexpectedMessage

Sides == {"school", "station"}

StopIds == {BUS_STOPS[side].stopId : side \in Sides}

(* A value that may be None *)
NoneValue == [is_none |-> TRUE, list |-> <<>>]

Some(list) == [is_none |-> FALSE, list |-> list]

NotCalled == [called |-> FALSE]

IssueGet_twice(gets_, stop_id) == [gets_ EXCEPT ![stop_id] = @ + 2]

(* get_arrivals calls requests.get once, outside any loop *)
IssueGet(gets_, stop_id) == [gets_ EXCEPT ![stop_id] = @ + 1]

HandleSingle(side, destination_name) ==
    /\ pc = "request"
    /\ LET c == SlotCount(slot)
           stop_id == BUS_STOPS[side].stopId
       IN  IF c.raised
           THEN /\ pc' = "raised"
                /\ ret' = [fn |-> "handle", result |-> c]
                /\ UNCHANGED <<count, gets, outcome, buses, speak>>
           ELSE LET result == get_next_buses(remote[stop_id], c.value) IN
                /\ count' = c.value
                /\ gets' = IssueGet(gets, stop_id)
                /\ outcome' = [outcome EXCEPT ![side] = result]
                /\ buses' = IF result.raised THEN buses
                            ELSE [buses EXCEPT ![side] = Some(result.value)]
                /\ speak' = SingleSpeak(result, destination_name)
                /\ pc' = "responded"
                /\ ret' = [fn |-> "handle", result |-> Return(speak')]
    /\ UNCHANGED <<args, intent, slot, remote, future, finished>>

HandleCheckSchool ==
    /\ intent = "CheckSchoolBusesIntent"
    /\ HandleSingle("school", "school")

HandleCheckStation ==
    /\ intent = "CheckStationBusesIntent"
    /\ HandleSingle("station", "the station")

-----------------------------------------------------------------------------
(* lambda_function.py: the handler of the combined query.  The handler's   *)
(* thread submits fetch_school and fetch_station to a pool of two workers  *)
(* and blocks in school_future.result(), then in station_future.result().  *)

BothCount == 2

BothApology == "Sorry, I can't reach the bus information service right now."

FoundStationOnly == "I found buses to the station, but couldn't check school. "

FoundSchoolOnly == "I found buses to school, but couldn't check the station. "

BothSpeak_anyFailure(school_buses, station_buses) ==
    IF school_buses.is_none \/ station_buses.is_none THEN BothApology
    ELSE format_both_directions(school_buses.list, station_buses.list)

(* Lines 183-192: graceful degradation *)
BothSpeak(school_buses, station_buses) ==
    IF school_buses.is_none /\ station_buses.is_none THEN BothApology
    ELSE IF school_buses.is_none
    THEN FoundStationOnly \o format_bus_list(station_buses.list, "the station")
    ELSE IF station_buses.is_none
    THEN FoundSchoolOnly \o format_bus_list(school_buses.list, "school")
    ELSE format_both_directions(school_buses.list, station_buses.list)

(* Lines 183-192 format the lists outside any try block: a list that is  *)
(* formatted and has a record with no numeric time raises TypeError       *)
BothRaises(school_buses, station_buses) ==
    IF school_buses.is_none /\ station_buses.is_none THEN FALSE
    ELSE IF school_buses.is_none THEN FormatRaises(station_buses.list)
    ELSE IF station_buses.is_none THEN FormatRaises(school_buses.list)
    ELSE FormatRaises(school_buses.list) \/ FormatRaises(station_buses.list)

(* fetch_school / fetch_station: any Exception becomes None *)
Fetched(result) ==
    IF result.raised
    THEN IF IsInstance(result.exc, "Exception") THEN Return(NoneValue) ELSE result
    ELSE Return(Some(result.value))

FutureDone_noWait(side) == TRUE

(* future.result() returns once the future is done *)
FutureDone(side) == future[side].state = "done"

FutureResult_asCompleted(side) ==
    future[finished[IF side = "school" THEN 1 ELSE 2]].result

(* school_future.result(), station_future.result() *)
FutureResult(side) == future[side].result

Submit(side) == future' = [future EXCEPT ![side].state = "pending"]

BothSubmitSchool ==
    /\ pc = "request"
    /\ intent = "CheckBothIntent"
    /\ count' = BothCount
    /\ buses' = [side \in Sides |-> Some(<<>>)]
    /\ Submit("school")
    /\ pc' = "submit_station"
    /\ UNCHANGED <<args, ret, intent, slot, remote, outcome, finished, gets, speak>>

BothSubmitStation ==
    /\ pc = "submit_station"
    /\ Submit("station")
    /\ pc' = "school_result"
    /\ UNCHANGED <<args, ret, intent, slot, remote, count, outcome, buses, finished, gets,
                   speak>>

(* A worker takes the submitted call and issues its GET *)
WorkerGet(side) ==
    /\ future[side].state = "pending"
    /\ future' = [future EXCEPT ![side].state = "running"]
    /\ gets' = IssueGet(gets, BUS_STOPS[side].stopId)
    /\ UNCHANGED <<pc, args, ret, intent, slot, remote, count, outcome, buses, finished,
                   speak>>

(* The GET is answered (or fails) and the call returns *)
WorkerDone(side) ==
    /\ future[side].state = "running"
    /\ LET result == get_next_buses(remote[BUS_STOPS[side].stopId], count) IN
       /\ outcome' = [outcome EXCEPT ![side] = result]
       /\ future' = [future EXCEPT ![side] =
                        [state |-> "done", result |-> Fetched(result).value]]
    /\ finished' = Append(finished, side)
    /\ UNCHANGED <<pc, args, ret, intent, slot, remote, count, buses, gets, speak>>

BothSchoolResult ==
    /\ pc = "school_result"
    /\ FutureDone("school")
    /\ buses' = [buses EXCEPT !["school"] = FutureResult("school")]
    /\ pc' = "station_result"
    /\ UNCHANGED <<args, ret, intent, slot, remote, count, future, outcome, finished, gets,
                   speak>>

(* station_future.result(), then the rest of the handler: leaving the with *)
(* block (both futures are done), composing and returning the response     *)
BothStationResult ==
    /\ pc = "station_result"
    /\ FutureDone("station")
    /\ buses' = [buses EXCEPT !["station"] = FutureResult("station")]
    /\ IF BothRaises(buses'["school"], buses'["station"])
       THEN /\ speak' = speak
            /\ ret' = [fn |-> "handle", result |-> Raise(Exc("TypeError", NoResponse))]
            /\ pc' = "raised"
       ELSE /\ speak' = BothSpeak(buses'["school"], buses'["station"])
            /\ ret' = [fn |-> "handle", result |-> Return(speak')]
            /\ pc' = "responded"
    /\ UNCHANGED <<args, intent, slot, remote, count, future, outcome, finished, gets>>

CatchAllMessage == "Sorry, I had trouble doing what you asked. Please try again."

(* CatchAllExceptionHandler: the SDK hands it an exception that left a    *)
(* request handler                                                        *)
CatchAllHandle ==
    /\ pc = "raised"
    /\ speak' = CatchAllMessage
    /\ pc' = "caught"
    /\ UNCHANGED <<args, ret, intent, slot, remote, count, future, outcome, buses,
                   finished, gets>>

-----------------------------------------------------------------------------
(* Spec: one request, of any of the three intents, handled from start to   *)
(* response; the TfL service's answer for each stop is fixed beforehand.   *)

Intents == {"CheckSchoolBusesIntent", "CheckStationBusesIntent", "CheckBothIntent"}

Slots == {NoSlot, NoneSlot} \cup {Slot(v) : v \in SeqsUpTo(SlotChars, MaxSlotLen)}

FetchedRecords ==
    [lineName : LineNames, destinationName : {"Victoria"}, timeToStation : Times]

Answers == {Arrivals(p) : p \in SeqsUpTo(FetchedRecords, MaxFetched)} \cup Failures

(* The stops the handler of an intent queries *)
Queried(intent_) ==
    CASE intent_ = "CheckSchoolBusesIntent" -> {BUS_STOPS.school.stopId}
      [] intent_ = "CheckStationBusesIntent" -> {BUS_STOPS.station.stopId}
      [] intent_ = "CheckBothIntent" -> StopIds

RequestInit(intents, answers) ==
    /\ pc = "request"
    /\ args = <<>>
    /\ ret = [fn |-> "none"]
    /\ intent \in intents
    /\ slot \in IF intent = "CheckBothIntent" THEN {NoSlot} ELSE Slots
    /\ remote \in {r \in [StopIds -> answers \cup {Arrivals(<<>>)}] :
                       \A id \in StopIds \ Queried(intent) : r[id] = Arrivals(<<>>)}
    /\ count = 0
    /\ future = [side \in Sides |-> [state |-> "unsubmitted", result |-> NoneValue]]
    /\ outcome = [side \in Sides |-> NotCalled]
    /\ buses = [side \in Sides |-> Some(<<>>)]
    /\ finished = <<>>
    /\ gets = [id \in StopIds |-> 0]
    /\ speak = ""

Init == RequestInit(Intents, Answers)

BothNext ==
    \/ BothSubmitSchool
    \/ BothSubmitStation
    \/ \E side \in Sides : WorkerGet(side)
    \/ \E side \in Sides : WorkerDone(side)
    \/ BothSchoolResult
    \/ BothStationResult

Next == HandleCheckSchool \/ HandleCheckStation \/ BothNext

Spec == Init /\ [][Next]_vars

(* The combined query alone, each stop answering with at most one record   *)
(* or failing.  Threads of the pool and the handler's thread keep running, *)
(* and every GET ends by its timeout: a step that can be taken is          *)
(* eventually taken.                                                       *)
BothAnswers == {Arrivals(p) : p \in SeqsUpTo(FetchedRecords, 1)} \cup Failures

BothInit == RequestInit({"CheckBothIntent"}, BothAnswers)

FairBothSpec == BothInit /\ [][BothNext]_vars /\ WF_vars(BothNext)

(* One request while the service may also answer with payload objects     *)
(* whose timeToStation is null                                             *)
NullTimeRecords ==
    {[lineName |-> "25", destinationName |-> "Victoria", timeToStation_null |-> TRUE]}

PayloadAnswers ==
    {Arrivals(p) : p \in SeqsUpTo(FetchedRecords \cup NullTimeRecords, MaxFetched)}
        \cup Failures

PayloadInit == RequestInit(Intents, PayloadAnswers)

PayloadNext == Next \/ CatchAllHandle

PayloadSpec == PayloadInit /\ [][PayloadNext]_vars

-----------------------------------------------------------------------------
(* The school or station query has been answered *)

SingleSide == IF intent = "CheckSchoolBusesIntent" THEN "school" ELSE "station"

SingleDone == pc = "responded" /\ intent # "CheckBothIntent"

SingleAnswer == remote[BUS_STOPS[SingleSide].stopId]

(* The combined query has been answered *)
BothDone == pc = "responded" /\ intent = "CheckBothIntent"

Answer(side) == remote[BUS_STOPS[side].stopId]

-----------------------------------------------------------------------------
(* C5: when the service answers a school or station query with a non-2xx   *)
(* status, the spoken message is selected by that status: 429 gives the    *)
(* "checking buses too frequently" message, any other 4xx the "problem     *)
(* with the bus stop configuration" message, 5xx the "experiencing issues" *)
(* message, and a request failure carrying no status the generic           *)
(* cannot-reach/connect message.                                           *)

C5_StatusSelectsMessage ==
    SingleDone =>
        LET a == SingleAnswer IN
        /\ (a.kind = "http" /\ a.status_code = 429) => speak = TooFrequentMessage
        /\ (a.kind = "http" /\ a.status_code # 429
               /\ 400 <= a.status_code /\ a.status_code < 500)
              => speak = ConfigurationMessage
        /\ (a.kind = "http" /\ 500 <= a.status_code /\ a.status_code < 600)
              => speak = IssuesMessage
        /\ (a.kind = "error" /\ a.type = "ConnectionError")
              => speak \in {CantReachMessage, CantConnectMessage}

-----------------------------------------------------------------------------
(* C6: get_arrivals fails with a Timeout when the remote call times out    *)
(* and with a RequestException that is not a Timeout for every other       *)
(* network-layer failure, and the school and station handlers tell them    *)
(* apart: a timed-out fetch always gives the "Transport for London isn't   *)
(* responding" message and never one of the RequestError messages, and no  *)
(* other network failure gives the timeout message.                        *)

C6_TimedOut(a) == a.kind = "error" /\ a.type \in {"ConnectTimeout", "ReadTimeout"}

C6_OtherNetworkFailure(a) ==
    \/ a.kind = "error" /\ a.type = "ConnectionError"
    \/ a.kind = "http" /\ a.status_code >= 400

C6_RequestErrorMessages ==
    {TooFrequentMessage, ConfigurationMessage, IssuesMessage, CantReachMessage,
     CantConnectMessage}

C6_TimeoutDistinguished ==
    SingleDone =>
        LET a == SingleAnswer
            raised == outcome[SingleSide]
        IN  /\ C6_TimedOut(a) =>
                  /\ raised.raised
                  /\ raised.exc.type = "Timeout"
                  /\ speak = TimeoutMessage
                  /\ speak \notin C6_RequestErrorMessages
            /\ C6_OtherNetworkFailure(a) =>
                  /\ raised.raised
                  /\ raised.exc.type = "RequestException"
                  /\ speak \in C6_RequestErrorMessages
                  /\ speak # TimeoutMessage

C6_Witness ==
    /\ SingleDone
    /\ intent = "CheckSchoolBusesIntent"
    /\ SingleAnswer = TransportError("ConnectTimeout")
    /\ outcome["school"].raised
    /\ outcome["school"].exc.type = "Timeout"
    /\ speak = TimeoutMessage

-----------------------------------------------------------------------------
(* C7: in the combined query, for every pair of fetch outcomes: both fail  *)
(* gives the single apology; exactly one fails gives the degraded sentence *)
(* naming the failed side followed by the single-destination listing of    *)
(* the successful side's records; both succeed gives the two-part combined *)
(* sentence.  A failed fetch never discards the other's result.            *)

C7_Failed(side) == ~IsArrivals(Answer(side))

(* The records of a side whose fetch succeeded *)
C7_Records(side) == get_next_buses(Answer(side), 2).value

C7_GracefulDegradation ==
    BothDone =>
        CASE C7_Failed("school") /\ C7_Failed("station") ->
                 speak = "Sorry, I can't reach the bus information service right now."
          [] C7_Failed("school") /\ ~C7_Failed("station") ->
                 speak = "I found buses to the station, but couldn't check school. "
                             \o format_bus_list(C7_Records("station"), "the station")
          [] ~C7_Failed("school") /\ C7_Failed("station") ->
                 speak = "I found buses to school, but couldn't check the station. "
                             \o format_bus_list(C7_Records("school"), "school")
          [] ~C7_Failed("school") /\ ~C7_Failed("station") ->
                 speak = format_both_directions(C7_Records("school"),
                                                C7_Records("station"))

C7_Witness ==
    /\ BothDone
    /\ Answer("school") = ErrorStatus(500)
    /\ Answer("station") =
           Arrivals(<<[lineName |-> "73", destinationName |-> "Victoria",
                       timeToStation |-> 120]>>)
    /\ speak = "I found buses to the station, but couldn't check school. "
                   \o "The next bus to the station is Route 73 in 2 minutes to Victoria."

-----------------------------------------------------------------------------
(* C8: in the combined query both fetches are submitted before the handler *)
(* waits for either, the response is produced only when both fetches have  *)
(* finished, in every interleaving, and once both have finished the        *)
(* response is eventually produced.                                        *)

C8_BothFinished == \A side \in Sides : future[side].state = "done"

C8_ResponseAfterBoth ==
    /\ [](pc \in {"school_result", "station_result", "responded"}
             => \A side \in Sides : future[side].state # "unsubmitted")
    /\ [](pc = "station_result" => future["school"].state = "done")
    /\ [](pc = "responded" => C8_BothFinished)
    /\ (C8_BothFinished ~> pc = "responded")

C8_Witness ==
    /\ pc = "responded"
    /\ C8_BothFinished
    /\ finished = <<"station", "school">>
    /\ gets = [id \in StopIds |-> 1]

-----------------------------------------------------------------------------
(* C9: the response of the combined query depends only on the two fetch    *)
(* outcomes, not on the order in which the fetches complete, and each      *)
(* fetch's result is attributed to its own side.                           *)

(* What the fetch of a side yields: its records, or None when it failed *)
C9_Outcome(side) ==
    IF IsArrivals(Answer(side)) THEN Some(get_next_buses(Answer(side), BothCount).value)
    ELSE NoneValue

C9_OrderIndependent ==
    BothDone =>
        /\ buses["school"] = C9_Outcome("school")
        /\ buses["station"] = C9_Outcome("station")
        /\ speak = BothSpeak(C9_Outcome("school"), C9_Outcome("station"))

C9_Witness ==
    /\ BothDone
    /\ finished = <<"station", "school">>
    /\ Answer("school") =
           Arrivals(<<[lineName |-> "25", destinationName |-> "Victoria",
                       timeToStation |-> 30]>>)
    /\ Answer("station") =
           Arrivals(<<[lineName |-> "73", destinationName |-> "Victoria",
                       timeToStation |-> 120]>>)
    /\ speak = "To school: Route 25 due now. To the station: Route 73 in 2 minutes."

-----------------------------------------------------------------------------
(* C10: for every value of the count slot, the count the school and        *)
(* station handlers pass to get_next_buses lies in 1..10: a numeric value  *)
(* v is clamped to max(1, min(v, 10)), and an absent, empty or non-numeric *)
(* value falls back to the default 3; the handler raises no error.         *)

C10_DigitOf(c) == CHOOSE k \in 0..9 : ToString(k) = c

C10_Unsigned(v) == IF Len(v) > 0 /\ v[1] = "-" THEN Tail(v) ELSE v

C10_IsNumber(v) ==
    /\ Len(C10_Unsigned(v)) > 0
    /\ \A i \in 1..Len(C10_Unsigned(v)) :
           \E k \in 0..9 : ToString(k) = C10_Unsigned(v)[i]

C10_Number(v) ==
    LET d == C10_Unsigned(v)
        n == Len(d)
        sum[i \in 0..n] ==
            IF i = 0 THEN 0 ELSE sum[i - 1] + C10_DigitOf(d[i]) * 10 ^ (n - i)
    IN  IF Len(v) > Len(d) THEN 0 - sum[n] ELSE sum[n]

C10_Clamped(v) == IF v < 1 THEN 1 ELSE IF v > 10 THEN 10 ELSE v

C10_CountInRange ==
    (pc \in {"responded", "raised"} /\ intent # "CheckBothIntent") =>
        /\ pc = "responded"
        /\ count \in 1..10
        /\ IF slot.present /\ slot.has_value /\ C10_IsNumber(slot.value)
           THEN count = C10_Clamped(C10_Number(slot.value))
           ELSE count = 3

C10_Witness ==
    /\ SingleDone
    /\ slot = Slot(<<"1", "5">>)
    /\ count = 10
    /\ gets[BUS_STOPS[SingleSide].stopId] = 1

-----------------------------------------------------------------------------
(* DirectionsSpec: format_both_directions applied to every pair of lists   *)
(* of at most MaxSide arrival records                                      *)

SideLists == SeqsUpTo(FetchedRecords, MaxSide)

DirectionsInit ==
    /\ pc = "call"
    /\ args \in [school_buses : SideLists, station_buses : SideLists]
    /\ ret = [fn |-> "none"]
    /\ NoRequest

CallFormatBothDirections ==
    /\ pc = "call"
    /\ ret' = [fn |-> "format_both_directions",
               value |-> format_both_directions(args.school_buses, args.station_buses)]
    /\ pc' = "returned"
    /\ UNCHANGED <<args, handlerVars>>

DirectionsNext == CallFormatBothDirections

DirectionsSpec == DirectionsInit /\ [][DirectionsNext]_vars

DirectionsReturned == pc = "returned" /\ ret.fn = "format_both_directions"

-----------------------------------------------------------------------------
(* C11: format_both_directions returns exactly "To school: {P1}. To the    *)
(* station: {P2}.", school part first; the part of an empty side is "no    *)
(* buses scheduled soon", and the part of a non-empty side lists every     *)
(* record of the side, in input order, as "Route {lineName} {time-phrase}" *)
(* with no destination name (whatever joins two consecutive phrases).      *)

C11_Phrase(r) == "Route " \o r.lineName \o " " \o C1_Policy(r.timeToStation)

C11_Joiners == {", ", " and ", ", and "}

(* The phrases of side, in order, with joiners j[1], ..., j[n-1] between *)
RECURSIVE C11_Listing(_, _, _)
C11_Listing(side, j, i) ==
    IF i = Len(side) THEN C11_Phrase(side[i])
    ELSE C11_Phrase(side[i]) \o j[i] \o C11_Listing(side, j, i + 1)

C11_Parts(side) ==
    IF Len(side) = 0 THEN {"no buses scheduled soon"}
    ELSE {C11_Listing(side, j, 1) : j \in [1..(Len(side) - 1) -> C11_Joiners]}

-----------------------------------------------------------------------------
(* C12: in format_both_directions the phrases of a non-empty side are      *)
(* joined by the rule of format_bus_list: two phrases as "{a}, and {b}",   *)
(* three or more as "{a}, {b}, ..., and {z}".                              *)
(* The function joins exactly two phrases as "{a} and {b}", with no comma; *)
(* C12_JoinRule states the rule it follows.                                *)

(* The rule of format_bus_list: every phrase but the last is followed by   *)
(* ", " and the last is preceded by "and "                                 *)
RECURSIVE C12_CommaAnd(_, _)
C12_CommaAnd(side, i) ==
    IF i = Len(side) THEN "and " \o C11_Phrase(side[i])
    ELSE C11_Phrase(side[i]) \o ", " \o C12_CommaAnd(side, i + 1)

C12_Part(side, two) ==
    CASE Len(side) = 0 -> "no buses scheduled soon"
      [] Len(side) = 1 -> C11_Phrase(side[1])
      [] Len(side) = 2 -> C11_Phrase(side[1]) \o two \o C11_Phrase(side[2])
      [] Len(side) >= 3 -> C12_CommaAnd(side, 1)

C12_Joined(two) ==
    DirectionsReturned =>
        ret.value = "To school: " \o C12_Part(args.school_buses, two)
                        \o ". To the station: " \o C12_Part(args.station_buses, two) \o "."

(* The claim as stated: two phrases are joined with ", and " *)
C12_SameJoinAsBusList == C12_Joined(", and ")

(* Two phrases are joined with " and "; three or more with commas and a    *)
(* final ", and "                                                          *)
C12_JoinRule == C12_Joined(" and ")

C12_Witness ==
    /\ DirectionsReturned
    /\ Len(args.school_buses) = 2
    /\ Len(args.station_buses) = 3
    /\ ret.value = "To school: Route 25 due now and Route 73 in 2 minutes. "
                       \o "To the station: Route 73 due now, Route 73 in 2 minutes, "
                       \o "and Route 25 in 2 minutes."

-----------------------------------------------------------------------------
(* C13: no request is retried.  A school or station query issues exactly   *)
(* one GET for its stop and a combined query exactly one GET per stop;     *)
(* once a fetch has failed no further GET goes to that stop, and the       *)
(* response is an error message of the failure (for the combined query the *)
(* apology or the degraded sentence naming the side that failed).          *)

C13_Failed(side) == "raised" \in DOMAIN outcome[side] /\ outcome[side].raised

C13_ErrorMessages ==
    {TimeoutMessage, TooFrequentMessage, ConfigurationMessage, IssuesMessage,
     CantReachMessage, CantConnectMessage, UnexpectedMessage}

C13_DegradedSchool ==
    {FoundStationOnly \o format_bus_list(b, "the station") :
         b \in SeqsUpTo(FetchedRecords, BothCount)}

C13_DegradedStation ==
    {FoundSchoolOnly \o format_bus_list(b, "school") :
         b \in SeqsUpTo(FetchedRecords, BothCount)}

C13_NoRetry ==
    /\ \A id \in StopIds : gets[id] <= 1
    /\ \A side \in Sides : C13_Failed(side) => gets[BUS_STOPS[side].stopId] = 1
    /\ pc = "responded" =>
           \A id \in StopIds : gets[id] = IF id \in Queried(intent) THEN 1 ELSE 0
    /\ (SingleDone /\ C13_Failed(SingleSide)) => speak \in C13_ErrorMessages
    /\ (BothDone /\ C13_Failed("school")) =>
           speak \in {BothApology} \cup C13_DegradedSchool
    /\ (BothDone /\ C13_Failed("station")) =>
           speak \in {BothApology} \cup C13_DegradedStation

C13_Witness ==
    /\ BothDone
    /\ Answer("school") = TransportError("ReadTimeout")
    /\ Answer("station") = ErrorStatus(503)
    /\ C13_Failed("school")
    /\ C13_Failed("station")
    /\ gets = [id \in StopIds |-> 1]
    /\ speak = BothApology

-----------------------------------------------------------------------------
(* C14: every error raised while a school, station or combined query is    *)
(* handled is caught by the query's handler and spoken as a message: no    *)
(* exception leaves the handler, and in the school and station handlers an *)
(* exception that is neither a Timeout nor a RequestException (one raised  *)
(* by a malformed payload, in the client or in the formatter) gives the    *)
(* "unexpected data" message.                                              *)

C14_OtherException(side) ==
    \/ /\ C13_Failed(side)
       /\ ~IsInstance(outcome[side].exc, "Timeout")
       /\ ~IsInstance(outcome[side].exc, "RequestException")
    \/ /\ "raised" \in DOMAIN outcome[side]
       /\ ~outcome[side].raised
       /\ FormatRaises(outcome[side].value)

C14_AllErrorsCaught ==
    /\ ret.fn = "handle" => ~ret.result.raised
    /\ pc \notin {"raised", "caught"}
    /\ (SingleDone /\ C14_OtherException(SingleSide)) => speak = UnexpectedMessage

-----------------------------------------------------------------------------
(* UrlSpec: a TfLClient is constructed in an environment and builds the    *)
(* URL of a stop                                                           *)

EnvValues == {EnvNone, EnvText(""), EnvText("test_id"), EnvText("test_key")}

BaseUrls == {TFL_API_BASE} \cup QueryBases

UrlInit ==
    /\ pc = "call"
    /\ args \in [TFL_APP_ID : EnvValues, TFL_APP_KEY : EnvValues,
                  base_url : BaseUrls, stop_id : StopIds]
    /\ ret = [fn |-> "none"]
    /\ NoRequest

CallBuildUrl ==
    /\ pc = "call"
    /\ ret' = [fn |-> "_build_url",
               value |-> build_url(args.base_url, args.TFL_APP_ID, args.TFL_APP_KEY,
                                   args.stop_id)]
    /\ pc' = "returned"
    /\ UNCHANGED <<args, handlerVars>>

UrlNext == CallBuildUrl

UrlSpec == UrlInit /\ [][UrlNext]_vars

-----------------------------------------------------------------------------
(* C15: the request URL is "{base}/StopPoint/{stopId}/Arrivals", followed  *)
(* by the query parameters app_id and app_key if and only if both          *)
(* credentials are set to a non-empty text in the environment; when either *)
(* is missing or empty the URL has neither parameter.                      *)

C15_Present(v) == v # EnvNone /\ v # EnvText("")

C15_Path == args.base_url \o "/StopPoint/" \o args.stop_id \o "/Arrivals"

C15_Authenticated ==
    {C15_Path \o sep \o "app_id=" \o args.TFL_APP_ID.text
              \o "&app_key=" \o args.TFL_APP_KEY.text : sep \in {"?", "&"}}

C15_CredentialsIffBoth ==
    (pc = "returned" /\ ret.fn = "_build_url") =>
        IF C15_Present(args.TFL_APP_ID) /\ C15_Present(args.TFL_APP_KEY)
        THEN ret.value \in C15_Authenticated
        ELSE ret.value = C15_Path

C15_Witness ==
    /\ pc = "returned"
    /\ ret.fn = "_build_url"
    /\ args.TFL_APP_ID = EnvText("test_id")
    /\ args.TFL_APP_KEY = EnvText("test_key")
    /\ ret.value = "https://api.tfl.gov.uk/StopPoint/490000123ABC/Arrivals"
                       \o "?app_id=test_id&app_key=test_key"

-----------------------------------------------------------------------------
(* C16: every record get_next_buses returns has exactly the fields         *)
(* lineName, destinationName and timeToStation; it is a record of the      *)
(* payload with the values it carries copied unchanged, "Unknown" for a    *)
(* missing lineName or destinationName, 0 for a missing timeToStation, and *)
(* every other field of the payload record dropped.                        *)

C16_Fields == {"lineName", "destinationName", "timeToStation"}

C16_Copies(b, r) ==
    /\ b.lineName = IF "lineName" \in DOMAIN r THEN r.lineName ELSE "Unknown"
    /\ b.destinationName =
           IF "destinationName" \in DOMAIN r THEN r.destinationName ELSE "Unknown"
    /\ b.timeToStation = IF "timeToStation" \in DOMAIN r THEN r.timeToStation ELSE 0

C16_ThreeFields ==
    (pc = "returned" /\ ret.fn = "get_next_buses" /\ IsArrivals(args.answer))
        => /\ ~ret.result.raised
           /\ \A i \in 1..Len(ret.result.value) :
                  /\ DOMAIN ret.result.value[i] = C16_Fields
                  /\ \E j \in 1..Len(args.answer.json) :
                         C16_Copies(ret.result.value[i], args.answer.json[j])

C16_Witness ==
    /\ pc = "returned"
    /\ ret.fn = "get_next_buses"
    /\ args.answer =
           Arrivals(<<[lineName |-> "25", destinationName |-> "Victoria",
                       timeToStation |-> 300, towards |-> "Aldgate"],
                      [lineName |-> "73", destinationName |-> "Victoria"],
                      [destinationName |-> "Victoria", timeToStation |-> 30]>>)
    /\ ret.count = 3
    /\ ~ret.result.raised
    /\ ret.result.value =
           <<[lineName |-> "Unknown", destinationName |-> "Victoria", timeToStation |-> 30],
             [lineName |-> "25", destinationName |-> "Victoria", timeToStation |-> 300],
             [lineName |-> "73", destinationName |-> "Victoria", timeToStation |-> 0]>>

-----------------------------------------------------------------------------
(* C17: format_single_bus renders an arrival record as "The {lineName}     *)
(* {time-phrase}" with no destination name (25 at 120 s is "The 25 in 2    *)
(* minutes", 73 at 30 s is "The 73 due now"), and format_bus_list lists    *)
(* every bus in this form.                                                 *)

C17_The(r) == "The " \o r.lineName \o " " \o C1_Policy(r.timeToStation)

RECURSIVE C17_Items(_, _)
C17_Items(arrivals, i) ==
    IF i = Len(arrivals) THEN "and " \o C17_The(arrivals[i])
    ELSE C17_The(arrivals[i]) \o ", " \o C17_Items(arrivals, i + 1)

C17_TheLineForm ==
    /\ (pc = "returned" /\ ret.fn = "format_single_bus")
           => ret.value = C17_The(ret.arrival)
    /\ (pc = "returned" /\ ret.fn = "format_bus_list" /\ Len(args.arrivals) = 1)
           => ret.value = "The next bus to " \o ret.destination_name \o " is "
                              \o C17_The(args.arrivals[1]) \o "."
    /\ (pc = "returned" /\ ret.fn = "format_bus_list" /\ Len(args.arrivals) >= 2)
           => ret.value = "The next " \o ToString(Len(args.arrivals)) \o " buses to "
                              \o ret.destination_name \o " are: "
                              \o C17_Items(args.arrivals, 1) \o "."

-----------------------------------------------------------------------------
(* C18: for every payload, also one with records that lack timeToStation,  *)
(* the records get_next_buses returns are in non-decreasing order of their *)
(* returned timeToStation (0 standing for a missing time), and every       *)
(* returned time is >= 0 when every time of the payload is >= 0.           *)

C18_NonNegative(payload) ==
    \A i \in 1..Len(payload) :
        "timeToStation" \in DOMAIN payload[i] => payload[i].timeToStation >= 0

C18_SortedByReturnedTime ==
    (pc = "returned" /\ ret.fn = "get_next_buses" /\ IsArrivals(args.answer))
        => /\ ~ret.result.raised
           /\ \A i, j \in 1..Len(ret.result.value) :
                  i < j => ret.result.value[i].timeToStation
                               <= ret.result.value[j].timeToStation
           /\ C18_NonNegative(args.answer.json) =>
                  \A i \in 1..Len(ret.result.value) :
                      ret.result.value[i].timeToStation >= 0

-----------------------------------------------------------------------------
(* C19: in the combined query a response that begins "I found buses to X,  *)
(* but couldn't check Y." goes on to list at least one bus for X: it never *)
(* continues with "No buses are scheduled to arrive at X in the next       *)
(* hour", the side that was fetched having returned a non-empty list.      *)

C19_NoBuses(L) == "No buses are scheduled to arrive at " \o L \o " in the next hour"

C19_FoundMeansListed ==
    BothDone =>
        /\ speak # FoundStationOnly \o C19_NoBuses("the station")
        /\ speak # FoundSchoolOnly \o C19_NoBuses("school")
        /\ (buses["school"].is_none /\ ~buses["station"].is_none)
               => Len(buses["station"].list) >= 1
        /\ (buses["station"].is_none /\ ~buses["school"].is_none)
               => Len(buses["school"].list) >= 1

====
